---------------------------- MODULE Spec2Model ----------------------------
(***************************************************************************)
(* kindlepathy: the supervisor of the readability worker process           *)
(* (ReadabilityClient: NewReadabilityClient, healthcheck, Parse, Close)    *)
(* as a state machine, and the decoding of the worker's responses as       *)
(* operators.                                                              *)
(*                                                                         *)
(* Time is not measured.  A timer (time.After, the ticker, a context       *)
(* deadline, the http client's Timeout) is an event that may happen at     *)
(* any moment after it was armed; the worker answers, exits and dies       *)
(* whenever it likes.  Every goroutine step is one action, so every        *)
(* interleaving the Go scheduler allows is a behaviour.                    *)
(***************************************************************************)
EXTENDS Integers, Sequences, FiniteSets, TLC

\* ------------------------------------------------------------------ bounds
\* Concurrent callers of Parse and of Close on the one client.
NumCallers == 2
NumClosers == 2

Callers == 1 .. NumCallers
Closers == 1 .. NumClosers
\* 0 is NewReadabilityClient itself: its health-check probes call Parse and
\* its unwinding calls Close.
Self == 0
ParseProcs == {Self} \cup Callers
CloseProcs == {Self} \cup Closers

\* ------------------------------------------------------------------ JSON
\* A JSON value the worker may put in a field, and the bodies it may answer.
JStr(s) == [t |-> "str", v |-> s]
JNull == [t |-> "null", v |-> ""]
JNum == [t |-> "num", v |-> "1"]

Fields == {"title", "textContent", "content", "excerpt", "siteName", "publishedTime"}

\* type ReadabilityResponseSuccess: six strings, "" when never set.
ZeroSuccess == [f \in Fields |-> ""]

BodyNull == [kind |-> "null", obj |-> <<>>, text |-> ""]
BodyObj(o) == [kind |-> "object", obj |-> o, text |-> ""]
BodyText(s) == [kind |-> "text", obj |-> <<>>, text |-> s]

\* json.Unmarshal(bodyBytes, &successResp): null leaves the struct as it is,
\* an object sets the string fields it names (a null member leaves the field
\* as it is, a member of another type is an error), anything else is an error.
\* The json tag of the struct's field: the name of its member in JSON.  The
\* model names a field by its tag (Title is "title").
FieldTagContentHTML(f) == IF f = "content" THEN "content_html" ELSE f
FieldTag(f) == f

UnmarshalOK(body) ==
    \/ body.kind = "null"
    \/ /\ body.kind = "object"
       /\ \A f \in Fields :
             FieldTag(f) \in DOMAIN body.obj => body.obj[FieldTag(f)].t \in {"str", "null"}

UnmarshalSuccess(body) ==
    IF body.kind = "object"
    THEN [f \in Fields |->
            IF FieldTag(f) \in DOMAIN body.obj /\ body.obj[FieldTag(f)].t = "str"
            THEN body.obj[FieldTag(f)].v ELSE ""]
    ELSE ZeroSuccess

\* json.Marshal of a ReadabilityResponseSuccess: an object with one string
\* member for every field, under the field's tag.
MarshalSuccess(val) ==
    BodyObj([k \in { FieldTag(f) : f \in Fields } |->
                JStr(val[CHOOSE f \in Fields : FieldTag(f) = k])])

\* What Parse returns: the pointer (ptr: is it non-nil, val: what it points
\* to) and the error (err: "nil" or the kind of error, status: the HTTP status
\* the error message carries, 0 when none).
\* msg is the text of the error after "server returned status %d: ", a
\* sequence of characters, empty when the error has no such text.
Ret(ptr, val, err, status) ==
    [ptr |-> ptr, val |-> val, err |-> err, status |-> status, msg |-> <<>>]
RetErr(err) == Ret(FALSE, ZeroSuccess, err, 0)
NoRet == Ret(FALSE, ZeroSuccess, "none", 0)

\* ---- the text of the error for a status other than 200
\* if len(errMsg) > 200
MaxErrMsg == 200

\* The characters of a string value of the model: a value is "" or stands
\* for one character.
Chars(s) == IF s = "" THEN <<>> ELSE <<s>>

Ellipsis == <<".", ".", ".">>

\* The members JSON.stringify writes, in this order.
KeyOrder ==
    <<"error", "details", "title", "textContent", "content", "excerpt", "siteName", "publishedTime">>

JsonValue(v) ==
    IF v.t = "str" THEN <<"\"">> \o Chars(v.v) \o <<"\"">>
    ELSE IF v.t = "null" THEN <<"n", "u", "l", "l">>
    ELSE Chars(v.v)

RECURSIVE JsonMembers(_, _)
JsonMembers(obj, keys) ==
    IF keys = <<>> THEN <<>>
    ELSE LET k == Head(keys)
             rest == JsonMembers(obj, Tail(keys))
         IN  IF k \in DOMAIN obj
             THEN <<"\"", k, "\"", ":">> \o JsonValue(obj[k])
                     \o (IF rest = <<>> THEN <<>> ELSE <<",">> \o rest)
             ELSE rest

\* string(bodyBytes): the body as the worker wrote it.  A key and a string
\* value count as one character each.
RawBody(body) ==
    IF body.kind = "null" THEN <<"n", "u", "l", "l">>
    ELSE IF body.kind = "object" THEN <<"{">> \o JsonMembers(body.obj, KeyOrder) \o <<"}">>
    ELSE body.text

\* strings.TrimSpace
TrimSpace(s) ==
    LET idx == {i \in 1 .. Len(s) : s[i] # " "}
    IN  IF idx = {} THEN <<>>
        ELSE SubSeq(s, CHOOSE i \in idx : \A j \in idx : i <= j,
                       CHOOSE i \in idx : \A j \in idx : i >= j)

\* http.StatusText: the reason phrase of a status it knows, "" otherwise.
StatusText(status) ==
    CASE status = 400 -> <<"Bad Request">>
      [] status = 405 -> <<"Method Not Allowed">>
      [] status = 500 -> <<"Internal Server Error">>
      [] OTHER -> <<>>

ErrorFields == {"error", "details"}

\* json.Unmarshal(bodyBytes, &errorResp) returns no error.
UnmarshalErrorOK(body) ==
    \/ body.kind = "null"
    \/ /\ body.kind = "object"
       /\ \A f \in (DOMAIN body.obj) \cap ErrorFields : body.obj[f].t \in {"str", "null"}

\* errorResp after it: type ReadabilityResponseError.
UnmarshalError(body) ==
    IF body.kind = "object"
    THEN [f \in ErrorFields |->
            IF f \in DOMAIN body.obj /\ body.obj[f].t = "str"
            THEN body.obj[f].v ELSE ""]
    ELSE [f \in ErrorFields |-> ""]

\* if len(errMsg) > 200 { errMsg = errMsg[:200] + "..." }
TruncateNever(t) == t
Truncate(t) == IF Len(t) > MaxErrMsg THEN SubSeq(t, 1, MaxErrMsg) \o Ellipsis ELSE t

\* Parse's else branch: the text after "server returned status %d: ".
ErrorMessage(status, body) ==
    LET e == UnmarshalError(body)
        errMsg == Truncate(TrimSpace(RawBody(body)))
    IN  IF UnmarshalErrorOK(body) /\ e.error # ""
        THEN Chars(e.error) \o
                (IF e.details # "" THEN <<" ", "(">> \o Chars(e.details) \o <<")">> ELSE <<>>)
        ELSE IF errMsg = <<>> THEN StatusText(status) ELSE errMsg

\* Parse, from the response on: status 200 decodes the success struct, any
\* other status is an error carrying the status and the text.
ParseResponse(status, body) ==
    IF status = 200
    THEN IF UnmarshalOK(body)
         THEN Ret(TRUE, UnmarshalSuccess(body), "nil", 0)
         ELSE Ret(FALSE, ZeroSuccess, "bad_json", 200)
    ELSE [Ret(FALSE, ZeroSuccess, "status", status) EXCEPT !.msg = ErrorMessage(status, body)]


\* The responses the worker gives in the supervisor's state machine: an
\* article, no article and a processing failure (readability/server.ts,
\* handleFetch).
Article == [f \in Fields |-> JStr("a")]
WorkerResponses ==
    { [status |-> 200, body |-> BodyObj(Article)],
      [status |-> 200, body |-> BodyNull],
      [status |-> 500, body |-> BodyObj([error |-> JStr("Processing Failed")])] }

\* ------------------------------------------------------------------ state
VARIABLES
    startPc,    \* where NewReadabilityClient is
    startIn,    \* what it finds: [dirOK, binOK, spawnOK]
    startCtx,   \* its ctx: "live", "canceled" or "deadline"
    startRet,   \* what it returned: "none", "ok", "startup_error", "healthcheck_error"
    lastErr,    \* healthcheck's lastErr
    cmd,        \* rc.cmd: "none" (no client yet), "started", "nil"
    mu,         \* rc.mu: the set of its holders
    proc,       \* the worker process: "none", "running", "dying", "exited", "reaped"
    listening,  \* the worker has bound the socket and answers
    sockFile,   \* a file exists at udsPath
    ppc,        \* Parse, per caller: "idle", "lock", "send", "wait", "ret", "done"
    pctx,       \* the ctx of the call: "live", "canceled" or "deadline"
    pret,       \* what the call returns
    psent,      \* the call has handed a request to the transport
    pafter,     \* the call took the lock on a client already marked closed
    inflight,   \* the callers whose httpClient.Do is outstanding
    cpc,        \* Close, per caller
    cctx,       \* the ctx of the call is done
    cret,       \* what the call returns
    cshut,      \* the call is the one that shuts the worker down
    cpath,      \* the way it took through Close
    cgot,       \* it has received from waitDone
    cexited,    \* the worker had exited when Close was called
    wpc,        \* the goroutine around localCmd.Wait(): "idle", "waiting", "reaped", "done"
    waitDone,   \* the channel waitDone holds a value
    sigterms,   \* calls of Process.Signal(SIGTERM)
    sigkills,   \* calls of Process.Signal(SIGKILL)
    waits,      \* wait goroutines started
    removes,    \* calls of os.Remove(rc.udsPath) made by Close
    pIn,        \* a response handed to Parse's decoding on its own
    pOut,       \* what Parse made of pIn
    pBack,      \* the result in pOut after json.Marshal and json.Unmarshal
    supPc,      \* several clients in one system, per client: where its life is
    supIn,      \* the tempDir and uid its NewReadabilityClient was given
    supPath,    \* its udsPath
    sockOwner,  \* per path: the client whose worker bound the file there, 0 for no file
    navIn,      \* a document and its URL handed to extractNav
    navOut,     \* what extractNav returned
    items,      \* table items: its rows
    activeItem, \* users.active_item_id of every user
    nextItemId, \* the id AUTOINCREMENT gives the next new row of items
    now,        \* time.Now().Unix()
    foreignKeys \* the connection enforces foreign keys (off unless asked for)

startVars == <<startPc, startIn, startCtx, startRet, lastErr>>
procVars == <<proc, listening, sockFile>>
parseVars == <<ppc, pctx, pret, psent, pafter, inflight>>
closeVars == <<cpc, cctx, cret, cshut, cpath, cgot, cexited>>
waitVars == <<wpc, waitDone>>
countVars == <<sigterms, sigkills, waits, removes>>
pathVars == <<supPc, supIn, supPath, sockOwner>>
libVars == <<items, activeItem, nextItemId, now, foreignKeys>>
navVars == <<navIn, navOut>>
pureVars == <<pIn, pOut, pBack, pathVars, navVars, libVars>>
vars == <<startVars, cmd, mu, procVars, parseVars, closeVars, waitVars, countVars, pureVars>>

CtxKinds == {"canceled", "deadline"}
NoResponse == [status |-> 0, body |-> BodyNull]

\* ---- several clients in one system
\* How many clients are made.
NumSups == 2
Sups == 1 .. NumSups

\* The tempDir and uid arguments: uid "" asks for a generated one.
TempDirs == {"/tmp", "/var/tmp"}
UidArgs == {"", "readability"}

\* uuid.New().String() in the call of client i: unlike every other uid.
NewUuid(i) == [kind |-> "uuid", v |-> ToString(i)]
GivenUid(u) == [kind |-> "given", v |-> u]

\* if uid == "" { uid = uuid.New().String() }
UidAlwaysFresh(i, u) == NewUuid(i)
UidOf(i, u) == IF u = "" THEN NewUuid(i) ELSE GivenUid(u)

\* filepath.Join(tempDir, fmt.Sprintf("readability-client-%s.sock", uid))
UdsPath(dir, uid) == [dir |-> dir, name |-> <<"readability-client-", uid, ".sock">>]

NoPath == [dir |-> "", name |-> <<>>]
UdsPaths ==
    { UdsPath(d, u) : d \in TempDirs,
                      u \in { NewUuid(i) : i \in Sups } \cup { GivenUid(a) : a \in UidArgs \ {""} } }

\* No client is made: the state of the clients' paths in the specifications
\* that are about one client.
PathsIdle ==
    /\ supPc = [i \in Sups |-> "init"]
    /\ supIn = [i \in Sups |-> [dir |-> "/tmp", uid |-> ""]]
    /\ supPath = [i \in Sups |-> NoPath]
    /\ sockOwner = [q \in UdsPaths |-> 0]

\* ---- extractNav on its own
\* A URL by its parts; the empty string is the URL whose parts are all
\* empty.
URL(scheme, host, path, query, frag) ==
    [scheme |-> scheme, host |-> host, path |-> path, query |-> query, frag |-> frag]
EmptyURL == URL("", "", "", "", "")

\* type Nav, and ret: extractNav has returned it.
Nav(next, prev) == [ret |-> TRUE, next |-> next, prev |-> prev]

\* Nothing handed to extractNav, nothing returned.
NoNavIn == [doc |-> [elems |-> <<>>, fill |-> 0], base |-> EmptyURL]
NoNav == [ret |-> FALSE, next |-> EmptyURL, prev |-> EmptyURL]
NavIdle ==
    /\ navIn = NoNavIn
    /\ navOut = NoNav

\* ---- the library on its own
\* The users of the database and NULL, which is no id: AUTOINCREMENT counts
\* from 1.
NumUsers == 2
Users == 1 .. NumUsers
Null == 0

\* No request was served: the empty library of the other specifications.
LibraryIdle ==
    /\ items = {}
    /\ activeItem = [u \in Users |-> Null]
    /\ nextItemId = 1
    /\ now = 1
    /\ foreignKeys = FALSE

\* The supervisor before NewReadabilityClient is called: no client, no
\* process; in is what the call will find, stale says that a file is left at
\* the socket path.
SupervisorInit(in, stale) ==
    /\ startPc = "init"
    /\ startIn = in
    /\ startCtx = "live"
    /\ startRet = "none"
    /\ lastErr = "nil"
    /\ cmd = "none"
    /\ mu = {}
    /\ proc = "none"
    /\ listening = FALSE
    /\ sockFile = stale
    /\ ppc = [p \in ParseProcs |-> "idle"]
    /\ pctx = [p \in ParseProcs |-> "live"]
    /\ pret = [p \in ParseProcs |-> NoRet]
    /\ psent = [p \in ParseProcs |-> FALSE]
    /\ pafter = [p \in ParseProcs |-> FALSE]
    /\ inflight = {}
    /\ cpc = [c \in CloseProcs |-> "idle"]
    /\ cctx = [c \in CloseProcs |-> FALSE]
    /\ cret = [c \in CloseProcs |-> "none"]
    /\ cshut = [c \in CloseProcs |-> FALSE]
    /\ cpath = [c \in CloseProcs |-> "none"]
    /\ cgot = [c \in CloseProcs |-> FALSE]
    /\ cexited = [c \in CloseProcs |-> FALSE]
    /\ wpc = "idle"
    /\ waitDone = FALSE
    /\ sigterms = 0
    /\ sigkills = 0
    /\ waits = 0
    /\ removes = 0

Init ==
    /\ \E in \in [dirOK : BOOLEAN, binOK : BOOLEAN, spawnOK : BOOLEAN], stale \in BOOLEAN :
          SupervisorInit(in, stale)
    /\ pIn = NoResponse
    /\ pOut = NoRet
    /\ pBack = ZeroSuccess
    /\ PathsIdle
    /\ NavIdle
    /\ LibraryIdle

\* ------------------------------------------------------------------ worker
\* Bun.serve binds the socket given with --uds: the file appears and the
\* worker answers from now on.
WorkerListen ==
    /\ proc = "running"
    /\ ~listening
    /\ listening' = TRUE
    /\ sockFile' = TRUE
    /\ UNCHANGED <<proc, startVars, cmd, mu, parseVars, closeVars, waitVars, countVars, pureVars>>

\* The worker process exits: on its own, or in its SIGTERM handler.  It stays
\* a zombie until Wait reaps it.
WorkerExit ==
    /\ proc = "running"
    /\ proc' = "exited"
    /\ listening' = FALSE
    /\ UNCHANGED <<sockFile, startVars, cmd, mu, parseVars, closeVars, waitVars, countVars, pureVars>>

\* A process that got SIGKILL runs no more code and ends when the kernel can
\* end it.
WorkerDie ==
    /\ proc = "dying"
    /\ proc' = "exited"
    /\ UNCHANGED <<listening, sockFile, startVars, cmd, mu, parseVars, closeVars, waitVars, countVars, pureVars>>

\* ------------------------------------------------------------------ NewReadabilityClient
\* tempDir is a directory and serverBinaryPath exists.
PathsOKDirOnly == startIn.dirOK
PathsOK == startIn.dirOK /\ startIn.binOK

\* os.Stat(tempDir) and os.Stat(serverBinaryPath).
StartValidate ==
    /\ startPc = "init"
    /\ IF PathsOK
       THEN /\ startPc' = "remove"
            /\ UNCHANGED startRet
       ELSE /\ startPc' = "done"
            /\ startRet' = "startup_error"
    /\ UNCHANGED <<startIn, startCtx, lastErr, cmd, mu, procVars, parseVars, closeVars, waitVars, countVars, pureVars>>

\* os.Remove(udsPath) of a stale file.
StartRemoveStale ==
    /\ startPc = "remove"
    /\ sockFile' = FALSE
    /\ startPc' = "spawn"
    /\ UNCHANGED <<startIn, startCtx, startRet, lastErr, cmd, mu, proc, listening, parseVars, closeVars, waitVars, countVars, pureVars>>

\* cmd.Start(), then the transport and the client around the started command.
StartSpawn ==
    /\ startPc = "spawn"
    /\ IF startIn.spawnOK
       THEN /\ proc' = "running"
            /\ cmd' = "started"
            /\ startPc' = "probe"
            /\ UNCHANGED startRet
       ELSE /\ startPc' = "done"
            /\ startRet' = "startup_error"
            /\ UNCHANGED <<proc, cmd>>
    /\ UNCHANGED <<startIn, startCtx, lastErr, mu, listening, sockFile, parseVars, closeVars, waitVars, countVars, pureVars>>

\* The ctx given to NewReadabilityClient ends: cancelled, or its deadline
\* passes.  attemptCtx of a probe under way is its child and ends with it.
StartCtxDone(kind) ==
    /\ startPc \notin {"done"}
    /\ startCtx = "live"
    /\ startCtx' = kind
    /\ pctx' = IF ppc[Self] \in {"send", "wait"} /\ pctx[Self] = "live"
               THEN [pctx EXCEPT ![Self] = kind] ELSE pctx
    /\ UNCHANGED <<startPc, startIn, startRet, lastErr, cmd, mu, procVars, ppc, pret, psent, pafter, inflight, closeVars, waitVars, countVars, pureVars>>

\* healthcheck: attemptCtx := WithTimeout(ctx, attemptTimeout); rc.Parse(attemptCtx, ...)
HcProbe ==
    /\ startPc = "probe"
    /\ startPc' = "probing"
    /\ ppc' = [ppc EXCEPT ![Self] = "lock"]
    /\ pctx' = [pctx EXCEPT ![Self] = startCtx]
    /\ UNCHANGED <<startIn, startCtx, startRet, lastErr, cmd, mu, procVars, pret, psent, pafter, inflight, closeVars, waitVars, countVars, pureVars>>

\* attemptTimeout passes during the probe.
AttemptTimeout ==
    /\ startPc = "probing"
    /\ ppc[Self] \in {"send", "wait"}
    /\ pctx[Self] = "live"
    /\ pctx' = [pctx EXCEPT ![Self] = "deadline"]
    /\ UNCHANGED <<startVars, cmd, mu, procVars, ppc, pret, psent, pafter, inflight, closeVars, waitVars, countVars, pureVars>>

\* The probe's parseErr == nil.
ProbeOKAlways(r) == TRUE
ProbeOK(r) == r.err = "nil"

\* Where healthcheck goes after a probe without error: return nil.
AfterProbeOKRetry == "hcselect"
AfterProbeOK == "done"

\* healthcheck after the probe: parseErr == nil returns nil and
\* NewReadabilityClient returns the client (its ctx and its locals are of no
\* use any more; pret keeps what the probe returned); otherwise
\* lastErr = parseErr.
HcProbeDone ==
    /\ startPc = "probing"
    /\ ppc[Self] = "done"
    /\ ppc' = [ppc EXCEPT ![Self] = "idle"]
    /\ pctx' = [pctx EXCEPT ![Self] = "live"]
    /\ psent' = [psent EXCEPT ![Self] = FALSE]
    /\ pafter' = [pafter EXCEPT ![Self] = FALSE]
    /\ IF ProbeOK(pret[Self])
       THEN /\ startPc' = AfterProbeOK
            /\ startRet' = "ok"
            /\ lastErr' = "nil"
            /\ startCtx' = "live"
            /\ UNCHANGED pret
       ELSE /\ startPc' = "hcselect"
            /\ lastErr' = pret[Self].err
            /\ pret' = [pret EXCEPT ![Self] = NoRet]
            /\ UNCHANGED <<startRet, startCtx>>
    /\ UNCHANGED <<startIn, cmd, mu, procVars, inflight, closeVars, waitVars, countVars, pureVars>>

\* healthcheck's select: ctx.Done() returns the error, ticker.C continues.
HcSelect ==
    /\ startPc = "hcselect"
    /\ \/ /\ startCtx # "live"
          /\ startPc' = "unwind"
       \/ startPc' = "probe"
    /\ UNCHANGED <<startIn, startCtx, startRet, lastErr, cmd, mu, procVars, parseVars, closeVars, waitVars, countVars, pureVars>>

\* The unwinding on a failed health check: client.Close(ctxClose) with a
\* fresh context of 3 seconds.
StartUnwind ==
    /\ startPc = "unwind"
    /\ startPc' = "closing"
    /\ cpc' = [cpc EXCEPT ![Self] = "lock"]
    /\ cexited' = [cexited EXCEPT ![Self] = (proc = "exited")]
    /\ UNCHANGED <<startIn, startCtx, startRet, lastErr, cmd, mu, procVars, parseVars, cctx, cret, cshut, cpath, cgot, waitVars, countVars, pureVars>>

\* return nil, fmt.Errorf("server failed health check: %w", err)
StartReturnFail ==
    /\ startPc = "closing"
    /\ cpc[Self] = "done"
    /\ startPc' = "done"
    /\ startRet' = "healthcheck_error"
    /\ UNCHANGED <<startIn, startCtx, lastErr, cmd, mu, procVars, parseVars, closeVars, waitVars, countVars, pureVars>>

\* ------------------------------------------------------------------ Parse
\* rc.mu.Lock() returns when nobody holds the mutex.
MuFreeBroken == TRUE
MuFree == mu = {}

\* Parse's test rc.cmd == nil.
ParseClosedNever == FALSE
ParseClosed == cmd # "started"

\* The error Parse returns when ctx.Err() != nil: it wraps ctx.Err().
CtxErrAlwaysDeadline(kind) == RetErr("ctx_deadline")
CtxErr(kind) == RetErr(IF kind = "canceled" THEN "ctx_canceled" ELSE "ctx_deadline")

\* A caller holding the client calls Parse.
ParseCall(p) ==
    /\ startRet = "ok"
    /\ ppc[p] = "idle"
    /\ ppc' = [ppc EXCEPT ![p] = "lock"]
    /\ UNCHANGED <<startVars, cmd, mu, procVars, pctx, pret, psent, pafter, inflight, closeVars, waitVars, countVars, pureVars>>

\* The caller's ctx ends: cancelled, or its deadline passes.  Parse reads
\* ctx in Do and after it, so an end before Do is an end just before Do.
ParseCtxDone(p, kind) ==
    /\ ppc[p] \in {"send", "wait"}
    /\ pctx[p] = "live"
    /\ pctx' = [pctx EXCEPT ![p] = kind]
    /\ UNCHANGED <<startVars, cmd, mu, procVars, ppc, pret, psent, pafter, inflight, closeVars, waitVars, countVars, pureVars>>

\* rc.mu.Lock(); defer rc.mu.Unlock(); if rc.cmd == nil { return closed }
ParseLock(p) ==
    /\ ppc[p] = "lock"
    /\ MuFree
    /\ mu' = mu \cup {p}
    /\ pafter' = [pafter EXCEPT ![p] = (cmd = "nil")]
    /\ IF ParseClosed
       THEN /\ ppc' = [ppc EXCEPT ![p] = "ret"]
            /\ pret' = [pret EXCEPT ![p] = RetErr("closed")]
       ELSE /\ ppc' = [ppc EXCEPT ![p] = "send"]
            /\ UNCHANGED pret
    /\ UNCHANGED <<startVars, cmd, procVars, pctx, psent, inflight, closeVars, waitVars, countVars, pureVars>>

\* rc.httpClient.Do(req): with ctx done the transport returns at once and
\* sends nothing; otherwise the request is on its way.
ParseSend(p) ==
    /\ ppc[p] = "send"
    /\ IF pctx[p] # "live"
       THEN /\ ppc' = [ppc EXCEPT ![p] = "ret"]
            /\ pret' = [pret EXCEPT ![p] = CtxErr(pctx[p])]
            /\ UNCHANGED <<psent, inflight>>
       ELSE /\ ppc' = [ppc EXCEPT ![p] = "wait"]
            /\ psent' = [psent EXCEPT ![p] = TRUE]
            /\ inflight' = inflight \cup {p}
            /\ UNCHANGED pret
    /\ UNCHANGED <<startVars, cmd, mu, procVars, pctx, pafter, closeVars, waitVars, countVars, pureVars>>

\* The worker answers the request and Parse reads and decodes the answer.
ParseRecv(p, resp) ==
    /\ ppc[p] = "wait"
    /\ proc = "running"
    /\ listening
    /\ ppc' = [ppc EXCEPT ![p] = "ret"]
    /\ pret' = [pret EXCEPT ![p] = ParseResponse(resp.status, resp.body)]
    /\ inflight' = inflight \ {p}
    /\ UNCHANGED <<startVars, cmd, mu, procVars, pctx, psent, pafter, closeVars, waitVars, countVars, pureVars>>

\* The http.Client has Timeout: TIMEOUT_REQUEST, a timer that ends a Do
\* under way whatever the worker does.
RequestTimeoutNone == FALSE
RequestTimeout == TRUE

\* Do returns an error: the dial or the connection failed (nobody listens),
\* the client's own Timeout (TIMEOUT_REQUEST) passed, or ctx ended.  Parse
\* then looks at ctx.Err() and not at the error.
ParseDoErr(p) ==
    /\ ppc[p] = "wait"
    /\ \/ /\ (proc # "running" \/ ~listening)
          /\ pret' = [pret EXCEPT ![p] =
                        IF pctx[p] # "live" THEN CtxErr(pctx[p]) ELSE RetErr("send_failed")]
       \/ /\ RequestTimeout
          /\ pret' = [pret EXCEPT ![p] =
                        IF pctx[p] # "live" THEN CtxErr(pctx[p]) ELSE RetErr("send_timeout")]
       \/ /\ pctx[p] # "live"
          /\ pret' = [pret EXCEPT ![p] = CtxErr(pctx[p])]
    /\ ppc' = [ppc EXCEPT ![p] = "ret"]
    /\ inflight' = inflight \ {p}
    /\ UNCHANGED <<startVars, cmd, mu, procVars, pctx, psent, pafter, closeVars, waitVars, countVars, pureVars>>

\* rc.mu.Unlock() by the holder p.
UnlockForgotten(p) == mu
Unlock(p) == mu \ {p}

\* Parse returns: the deferred rc.mu.Unlock().  healthcheck looks at what
\* its probe returned; another caller's call is over.
ParseReturn(p) ==
    /\ ppc[p] = "ret"
    /\ mu' = Unlock(p)
    /\ IF p = Self
       THEN /\ ppc' = [ppc EXCEPT ![p] = "done"]
            /\ UNCHANGED <<pctx, pret, psent, pafter>>
       ELSE /\ ppc' = [ppc EXCEPT ![p] = "idle"]
            /\ pctx' = [pctx EXCEPT ![p] = "live"]
            /\ pret' = [pret EXCEPT ![p] = NoRet]
            /\ psent' = [psent EXCEPT ![p] = FALSE]
            /\ pafter' = [pafter EXCEPT ![p] = FALSE]
    /\ UNCHANGED <<startVars, cmd, procVars, inflight, closeVars, waitVars, countVars, pureVars>>

\* ------------------------------------------------------------------ Close
\* Close's test rc.cmd == nil || rc.cmd.Process == nil (Process is set by
\* cmd.Start, so a started command always has one).
CloseAlreadyClosedNever == FALSE
CloseAlreadyClosed == cmd # "started"

\* Process.Signal on the worker: ErrProcessDone once Wait has reaped it,
\* delivered otherwise (a zombie takes a signal without effect).
SignalDone == proc = "reaped"

\* What SIGKILL does to the process.
KillEffectNone(pr) == pr
KillEffect(pr) == IF pr = "running" THEN "dying" ELSE pr

\* The ctx.Done() case of Close's select is ready.
CtxDoneReadyAlways(c) == TRUE
CtxDoneReady(c) == cctx[c]

\* What Close returns after the forced kill: the wait result arrived, or
\* TIMEOUT_WAIT_AFTER_KILL passed first.
KilledRetSwapped(got) == IF got THEN "shutdown_timeout" ELSE "killed"
KilledRet(got) == IF got THEN "killed" ELSE "shutdown_timeout"

\* Where Close goes when it returns on the given path: every return runs the
\* deferred os.Remove(rc.udsPath).
AfterReturnLeaky(path) == IF path = "kill_timeout" THEN "done" ELSE "remove"
AfterReturn(path) == "remove"

\* A holder of the client calls Close, with a ctx that is live or already
\* done.
CloseCall(c, done) ==
    /\ startRet = "ok"
    /\ cpc[c] \in {"idle", "done"}
    /\ cpc' = [cpc EXCEPT ![c] = "lock"]
    /\ cctx' = [cctx EXCEPT ![c] = done]
    /\ cret' = [cret EXCEPT ![c] = "none"]
    /\ cshut' = [cshut EXCEPT ![c] = FALSE]
    /\ cpath' = [cpath EXCEPT ![c] = "none"]
    /\ cgot' = [cgot EXCEPT ![c] = FALSE]
    /\ cexited' = [cexited EXCEPT ![c] = (proc = "exited")]
    /\ UNCHANGED <<startVars, cmd, mu, procVars, parseVars, waitVars, countVars, pureVars>>

\* The ctx given to Close ends (for the unwinding Close: the 3 seconds
\* pass).  Close reads ctx in its select only, so an end between the call
\* and the select is an end just before the select.
CloseCtxDone(c) ==
    /\ cpc[c] = "select"
    /\ ~cctx[c]
    /\ cctx' = [cctx EXCEPT ![c] = TRUE]
    /\ UNCHANGED <<startVars, cmd, mu, procVars, parseVars, cpc, cret, cshut, cpath, cgot, cexited, waitVars, countVars, pureVars>>

\* rc.mu.Lock(); already closed: unlock and return nil.  Otherwise
\* localCmd := rc.cmd; rc.cmd = nil; rc.mu.Unlock().
CloseLock(c) ==
    /\ cpc[c] = "lock"
    /\ MuFree
    /\ IF CloseAlreadyClosed
       THEN /\ cpc' = [cpc EXCEPT ![c] = "done"]
            /\ cret' = [cret EXCEPT ![c] = "nil"]
            /\ UNCHANGED <<cmd, cshut>>
       ELSE /\ cmd' = "nil"
            /\ cshut' = [cshut EXCEPT ![c] = TRUE]
            /\ cpc' = [cpc EXCEPT ![c] = "go"]
            /\ UNCHANGED cret
    /\ UNCHANGED <<startVars, mu, procVars, parseVars, cctx, cpath, cgot, cexited, waitVars, countVars, pureVars>>

\* go func() { waitErr := localCmd.Wait(); waitDone <- waitErr }()
CloseGo(c) ==
    /\ cpc[c] = "go"
    /\ cpc' = [cpc EXCEPT ![c] = "term"]
    /\ wpc' = "waiting"
    /\ waitDone' = FALSE
    /\ waits' = waits + 1
    /\ UNCHANGED <<startVars, cmd, mu, procVars, parseVars, cctx, cret, cshut, cpath, cgot, cexited, sigterms, sigkills, removes, pureVars>>

\* localCmd.Wait() returns once the process has exited, and reaps it.
WaitReap ==
    /\ wpc = "waiting"
    /\ proc = "exited"
    /\ proc' = "reaped"
    /\ wpc' = "reaped"
    /\ UNCHANGED <<startVars, cmd, mu, listening, sockFile, parseVars, closeVars, waitDone, countVars, pureVars>>

\* When a send on waitDone can go ahead: make(chan error, 1) has room for
\* the one value ever sent, so always; a channel without a buffer would need
\* Close in one of its selects.
WaitDoneRoomUnbuffered == \E c \in CloseProcs : cpc[c] \in {"finished", "select", "killed"}
WaitDoneRoom == TRUE

\* waitDone <- waitErr: the channel has room for one value, so the send
\* never blocks and the goroutine ends.
WaitSend ==
    /\ wpc = "reaped"
    /\ WaitDoneRoom
    /\ wpc' = "done"
    /\ waitDone' = TRUE
    /\ UNCHANGED <<startVars, cmd, mu, procVars, parseVars, closeVars, countVars, pureVars>>

\* err := localCmd.Process.Signal(syscall.SIGTERM)
CloseSigterm(c) ==
    /\ cpc[c] = "term"
    /\ sigterms' = sigterms + 1
    /\ cpc' = [cpc EXCEPT ![c] = IF SignalDone THEN "finished" ELSE "select"]
    /\ UNCHANGED <<startVars, cmd, mu, procVars, parseVars, cctx, cret, cshut, cpath, cgot, cexited, waitVars, sigkills, waits, removes, pureVars>>

\* The process had already finished: select on waitDone and
\* time.After(TIMEOUT_WAIT_AFTER_KILL).
CloseFinished(c) ==
    /\ cpc[c] = "finished"
    /\ \/ /\ waitDone
          /\ waitDone' = FALSE
          /\ cgot' = [cgot EXCEPT ![c] = TRUE]
          /\ cret' = [cret EXCEPT ![c] = "nil"]
          /\ cpath' = [cpath EXCEPT ![c] = "finished"]
          /\ cpc' = [cpc EXCEPT ![c] = AfterReturn("finished")]
       \/ /\ cret' = [cret EXCEPT ![c] = "wait_timeout"]
          /\ cpath' = [cpath EXCEPT ![c] = "finished_timeout"]
          /\ cpc' = [cpc EXCEPT ![c] = AfterReturn("finished_timeout")]
          /\ UNCHANGED <<waitDone, cgot>>
    /\ UNCHANGED <<startVars, cmd, mu, procVars, parseVars, cctx, cshut, cexited, wpc, countVars, pureVars>>

\* select on waitDone (return nil) and ctx.Done() (send SIGKILL).
CloseSelect(c) ==
    /\ cpc[c] = "select"
    /\ \/ /\ waitDone
          /\ waitDone' = FALSE
          /\ cgot' = [cgot EXCEPT ![c] = TRUE]
          /\ cret' = [cret EXCEPT ![c] = "nil"]
          /\ cpath' = [cpath EXCEPT ![c] = "graceful"]
          /\ cpc' = [cpc EXCEPT ![c] = AfterReturn("graceful")]
          /\ UNCHANGED <<proc, sigkills>>
       \/ /\ CtxDoneReady(c)
          /\ sigkills' = sigkills + 1
          /\ proc' = KillEffect(proc)
          /\ cpc' = [cpc EXCEPT ![c] = "killed"]
          /\ UNCHANGED <<waitDone, cgot, cret, cpath>>
    /\ UNCHANGED <<startVars, cmd, mu, listening, sockFile, parseVars, cctx, cshut, cexited, wpc, sigterms, waits, removes, pureVars>>

\* After SIGKILL: select on waitDone and time.After(TIMEOUT_WAIT_AFTER_KILL).
\* Both cases return an error that wraps ctx.Err().
CloseKilled(c) ==
    /\ cpc[c] = "killed"
    /\ \/ /\ waitDone
          /\ waitDone' = FALSE
          /\ cgot' = [cgot EXCEPT ![c] = TRUE]
          /\ cret' = [cret EXCEPT ![c] = KilledRet(TRUE)]
          /\ cpath' = [cpath EXCEPT ![c] = "killed"]
          /\ cpc' = [cpc EXCEPT ![c] = AfterReturn("killed")]
       \/ /\ cret' = [cret EXCEPT ![c] = KilledRet(FALSE)]
          /\ cpath' = [cpath EXCEPT ![c] = "kill_timeout"]
          /\ cpc' = [cpc EXCEPT ![c] = AfterReturn("kill_timeout")]
          /\ UNCHANGED <<waitDone, cgot>>
    /\ UNCHANGED <<startVars, cmd, mu, procVars, parseVars, cctx, cshut, cexited, wpc, countVars, pureVars>>

\* The deferred function: os.Remove(rc.udsPath); a missing file is no error.
CloseRemove(c) ==
    /\ cpc[c] = "remove"
    /\ sockFile' = FALSE
    /\ removes' = removes + 1
    /\ cpc' = [cpc EXCEPT ![c] = "done"]
    /\ UNCHANGED <<startVars, cmd, mu, proc, listening, parseVars, cctx, cret, cshut, cpath, cgot, cexited, waitVars, sigterms, sigkills, waits, pureVars>>

\* ------------------------------------------------------------------ specification
Next ==
    \/ WorkerListen
    \/ WorkerExit
    \/ WorkerDie
    \/ StartValidate
    \/ StartRemoveStale
    \/ StartSpawn
    \/ \E kind \in CtxKinds : StartCtxDone(kind)
    \/ HcProbe
    \/ AttemptTimeout
    \/ HcProbeDone
    \/ HcSelect
    \/ StartUnwind
    \/ StartReturnFail
    \/ \E p \in Callers : ParseCall(p)
    \/ \E p \in Callers, kind \in CtxKinds : ParseCtxDone(p, kind)
    \/ \E p \in ParseProcs : ParseLock(p)
    \/ \E p \in ParseProcs : ParseSend(p)
    \/ \E p \in ParseProcs, resp \in WorkerResponses : ParseRecv(p, resp)
    \/ \E p \in ParseProcs : ParseDoErr(p)
    \/ \E p \in ParseProcs : ParseReturn(p)
    \/ \E c \in Closers, done \in BOOLEAN : CloseCall(c, done)
    \/ \E c \in CloseProcs : CloseCtxDone(c)
    \/ \E c \in CloseProcs : CloseLock(c)
    \/ \E c \in CloseProcs : CloseGo(c)
    \/ WaitReap
    \/ WaitSend
    \/ \E c \in CloseProcs : CloseSigterm(c)
    \/ \E c \in CloseProcs : CloseFinished(c)
    \/ \E c \in CloseProcs : CloseSelect(c)
    \/ \E c \in CloseProcs : CloseKilled(c)
    \/ \E c \in CloseProcs : CloseRemove(c)

Spec == Init /\ [][Next]_vars

\* ------------------------------------------------------------------ scheduling
\* What the runtime and the kernel guarantee.  A goroutine that can take its
\* next step takes it; a timer that was set fires (the ticker of the health
\* check, the request timeout, the waits of Close); sync.Mutex hands the lock
\* to a goroutine that waits for it (its starvation mode), whoever else
\* asks; select takes at random among the cases that are ready, so a case
\* that is ready again and again is taken; a process that got SIGKILL ends.
\* Nothing is promised of the worker (it may never listen, answer or exit),
\* of the callers (they need not call) or of any ctx (it need not end).
StartSteps ==
    \/ StartValidate
    \/ StartRemoveStale
    \/ StartSpawn
    \/ HcProbe
    \/ HcProbeDone
    \/ StartUnwind
    \/ StartReturnFail

ParseSteps(p) == ParseSend(p) \/ ParseDoErr(p) \/ ParseReturn(p)

CloseSteps(c) ==
    \/ CloseGo(c)
    \/ CloseSigterm(c)
    \/ CloseFinished(c)
    \/ CloseSelect(c)
    \/ CloseKilled(c)
    \/ CloseRemove(c)

Fairness ==
    /\ WF_vars(StartSteps)
    /\ WF_vars(HcSelect)
    /\ SF_vars(HcSelect /\ startPc' = "unwind")
    /\ \A p \in ParseProcs : SF_vars(ParseLock(p)) /\ WF_vars(ParseSteps(p))
    /\ \A c \in CloseProcs : SF_vars(CloseLock(c)) /\ WF_vars(CloseSteps(c))
    /\ WF_vars(WaitReap)
    /\ WF_vars(WaitSend)
    /\ WF_vars(WorkerDie)

\* The client with callers of Parse and nobody calling Close (the unwinding
\* of a failed start is the one Close).
NextParsers ==
    \/ WorkerListen
    \/ WorkerExit
    \/ WorkerDie
    \/ StartValidate
    \/ StartRemoveStale
    \/ StartSpawn
    \/ \E kind \in CtxKinds : StartCtxDone(kind)
    \/ HcProbe
    \/ AttemptTimeout
    \/ HcProbeDone
    \/ HcSelect
    \/ StartUnwind
    \/ StartReturnFail
    \/ \E p \in Callers : ParseCall(p)
    \/ \E p \in Callers, kind \in CtxKinds : ParseCtxDone(p, kind)
    \/ \E p \in ParseProcs : ParseLock(p)
    \/ \E p \in ParseProcs : ParseSend(p)
    \/ \E p \in ParseProcs, resp \in WorkerResponses : ParseRecv(p, resp)
    \/ \E p \in ParseProcs : ParseDoErr(p)
    \/ \E p \in ParseProcs : ParseReturn(p)
    \/ \E c \in CloseProcs : CloseCtxDone(c)
    \/ \E c \in CloseProcs : CloseLock(c)
    \/ \E c \in CloseProcs : CloseGo(c)
    \/ WaitReap
    \/ WaitSend
    \/ \E c \in CloseProcs : CloseSigterm(c)
    \/ \E c \in CloseProcs : CloseFinished(c)
    \/ \E c \in CloseProcs : CloseSelect(c)
    \/ \E c \in CloseProcs : CloseKilled(c)
    \/ \E c \in CloseProcs : CloseRemove(c)

SpecParsers == Init /\ [][NextParsers]_vars /\ Fairness

\* The client with callers of Close and nobody calling Parse (the probes of
\* the health check are the only calls).
NextClosers ==
    \/ WorkerListen
    \/ WorkerExit
    \/ WorkerDie
    \/ StartValidate
    \/ StartRemoveStale
    \/ StartSpawn
    \/ \E kind \in CtxKinds : StartCtxDone(kind)
    \/ HcProbe
    \/ AttemptTimeout
    \/ HcProbeDone
    \/ HcSelect
    \/ StartUnwind
    \/ StartReturnFail
    \/ \E p \in ParseProcs : ParseLock(p)
    \/ \E p \in ParseProcs : ParseSend(p)
    \/ \E p \in ParseProcs, resp \in WorkerResponses : ParseRecv(p, resp)
    \/ \E p \in ParseProcs : ParseDoErr(p)
    \/ \E p \in ParseProcs : ParseReturn(p)
    \/ \E c \in Closers, done \in BOOLEAN : CloseCall(c, done)
    \/ \E c \in CloseProcs : CloseCtxDone(c)
    \/ \E c \in CloseProcs : CloseLock(c)
    \/ \E c \in CloseProcs : CloseGo(c)
    \/ WaitReap
    \/ WaitSend
    \/ \E c \in CloseProcs : CloseSigterm(c)
    \/ \E c \in CloseProcs : CloseFinished(c)
    \/ \E c \in CloseProcs : CloseSelect(c)
    \/ \E c \in CloseProcs : CloseKilled(c)
    \/ \E c \in CloseProcs : CloseRemove(c)

\* Of the scheduling, only that the wait goroutine takes its steps.
FairnessWait == WF_vars(WaitReap) /\ WF_vars(WaitSend)

SpecClosers == Init /\ [][NextClosers]_vars /\ FairnessWait


\* ------------------------------------------------------------------ Parse's decoding on its own
\* The bodies a worker may answer with status 200 or 500: null, and every
\* object over the six fields whose members are a string, null or a number.
FieldValues == {JStr(""), JStr("a"), JNull, JNum}
Objects == UNION { [D -> FieldValues] : D \in SUBSET Fields }

\* The bodies of a failure: every object over error and details, and the
\* texts that are no JSON: up to MaxPad spaces, some x, up to MaxPad spaces,
\* the x none, one, or about MaxErrMsg of them (up to MaxOver more).
MaxPad == 1
MaxOver == 2
Texts ==
    LET Spaces(n) == [i \in 1 .. n |-> " "]
        Xs(n) == [i \in 1 .. n |-> "x"]
        TextLens == {0, 1} \cup ((MaxErrMsg - 1) .. (MaxErrMsg + MaxOver))
    IN  { Spaces(a) \o Xs(m) \o Spaces(b) : a \in 0 .. MaxPad, b \in 0 .. MaxPad, m \in TextLens }
ErrorBodies ==
    { BodyObj(o) : o \in UNION { [D -> FieldValues] : D \in SUBSET ErrorFields } }
        \cup { BodyText(t) : t \in Texts }

\* 599 is a status http.StatusText has no text for.
ParseInputs ==
    [status : {200, 500}, body : {BodyNull} \cup { BodyObj(o) : o \in Objects }]
        \cup [status : {200, 400, 500, 599}, body : {BodyNull} \cup ErrorBodies]

InitParse ==
    /\ SupervisorInit([dirOK |-> TRUE, binOK |-> TRUE, spawnOK |-> TRUE], FALSE)
    /\ pIn \in ParseInputs
    /\ pOut = NoRet
    /\ pBack = ZeroSuccess
    /\ PathsIdle
    /\ NavIdle
    /\ LibraryIdle

\* Parse reads and decodes the response pIn; a result it returns is encoded
\* and decoded again.
ApplyParse ==
    /\ pOut = NoRet
    /\ pOut' = ParseResponse(pIn.status, pIn.body)
    /\ pBack' = IF pOut'.ptr /\ UnmarshalOK(MarshalSuccess(pOut'.val))
                THEN UnmarshalSuccess(MarshalSuccess(pOut'.val)) ELSE ZeroSuccess
    /\ UNCHANGED <<pIn, pathVars, navVars, libVars, startVars, cmd, mu, procVars, parseVars, closeVars, waitVars, countVars>>

SpecParse == InitParse /\ [][ApplyParse]_vars


\* ------------------------------------------------------------------ several clients, their socket paths
\* The one client of the other specifications, not made.
ClientIdle ==
    /\ SupervisorInit([dirOK |-> TRUE, binOK |-> TRUE, spawnOK |-> TRUE], FALSE)
    /\ pIn = NoResponse
    /\ pOut = NoRet
    /\ pBack = ZeroSuccess

InitPaths ==
    /\ ClientIdle
    /\ NavIdle
    /\ LibraryIdle
    /\ supPc = [i \in Sups |-> "init"]
    /\ supIn \in [Sups -> [dir : TempDirs, uid : UidArgs]]
    /\ supPath = [i \in Sups |-> NoPath]
    /\ sockOwner = [q \in UdsPaths |-> 0]

\* NewReadabilityClient up to udsPath (both checks passed).
SupNew(i) ==
    /\ supPc[i] = "init"
    /\ supPath' = [supPath EXCEPT ![i] = UdsPath(supIn[i].dir, UidOf(i, supIn[i].uid))]
    /\ supPc' = [supPc EXCEPT ![i] = "remove"]
    /\ UNCHANGED <<supIn, sockOwner, navVars, pIn, pOut, pBack, libVars, startVars, cmd, mu, procVars, parseVars, closeVars, waitVars, countVars>>

\* os.Remove(udsPath): whatever file is there goes.
SupRemoveStale(i) ==
    /\ supPc[i] = "remove"
    /\ sockOwner' = [sockOwner EXCEPT ![supPath[i]] = 0]
    /\ supPc' = [supPc EXCEPT ![i] = "spawn"]
    /\ UNCHANGED <<supIn, supPath, navVars, pIn, pOut, pBack, libVars, startVars, cmd, mu, procVars, parseVars, closeVars, waitVars, countVars>>

\* cmd.Start() and the worker's Bun.serve on the path, then the health
\* check, which is answered by whoever listens at the path.  With a file
\* there already the worker either fails to bind or replaces it.
SupSpawn(i) ==
    /\ supPc[i] = "spawn"
    /\ \/ /\ sockOwner[supPath[i]] = 0
          /\ sockOwner' = [sockOwner EXCEPT ![supPath[i]] = i]
       \/ /\ sockOwner[supPath[i]] # 0
          /\ sockOwner' = [sockOwner EXCEPT ![supPath[i]] = i]
       \/ /\ sockOwner[supPath[i]] # 0
          /\ UNCHANGED sockOwner
    /\ supPc' = [supPc EXCEPT ![i] = "ready"]
    /\ UNCHANGED <<supIn, supPath, navVars, pIn, pOut, pBack, libVars, startVars, cmd, mu, procVars, parseVars, closeVars, waitVars, countVars>>

\* Close: the worker ends and the deferred os.Remove(rc.udsPath) runs.
SupClose(i) ==
    /\ supPc[i] = "ready"
    /\ sockOwner' = [sockOwner EXCEPT ![supPath[i]] = 0]
    /\ supPc' = [supPc EXCEPT ![i] = "closed"]
    /\ UNCHANGED <<supIn, supPath, navVars, pIn, pOut, pBack, libVars, startVars, cmd, mu, procVars, parseVars, closeVars, waitVars, countVars>>

NextPaths ==
    \/ \E i \in Sups : SupNew(i)
    \/ \E i \in Sups : SupRemoveStale(i)
    \/ \E i \in Sups : SupSpawn(i)
    \/ \E i \in Sups : SupClose(i)

SpecPaths == InitPaths /\ [][NextPaths]_vars


\* ------------------------------------------------------------------ extractNav
\* ---- strings
Contains(s, p) ==
    \E i \in 1 .. (Len(s) - Len(p) + 1) : SubSeq(s, i, i + Len(p) - 1) = p

LowerChar(c) ==
    LET UpperLetters == "ABCDEFGHIJKLMNOPQRSTUVWXYZ"
        LowerLetters == "abcdefghijklmnopqrstuvwxyz"
    IN  IF \E i \in 1 .. Len(UpperLetters) : SubSeq(UpperLetters, i, i) = c
        THEN LET i == CHOOSE k \in 1 .. Len(UpperLetters) : SubSeq(UpperLetters, k, k) = c
             IN  SubSeq(LowerLetters, i, i)
        ELSE c

\* strings.ToLower, for the letters A to Z.
RECURSIVE ToLower(_)
ToLower(s) == IF s = "" THEN "" ELSE LowerChar(Head(s)) \o ToLower(Tail(s))

\* strings.TrimSpace of a string.
TrimText(s) ==
    LET idx == {i \in 1 .. Len(s) : SubSeq(s, i, i) # " "}
    IN  IF idx = {} THEN ""
        ELSE SubSeq(s, CHOOSE i \in idx : \A j \in idx : i <= j,
                       CHOOSE i \in idx : \A j \in idx : i >= j)

\* The bytes of a character in UTF-8, for the characters of the patterns.
ByteWidth(c) == IF c \in {"→", "←"} THEN 3 ELSE IF c \in {"ü", "é"} THEN 2 ELSE 1

\* len(s): the bytes of s.
RECURSIVE ByteLen(_)
ByteLen(s) == IF s = "" THEN 0 ELSE ByteWidth(Head(s)) + ByteLen(Tail(s))

\* ---- the patterns
patternsNext ==
    << "next", "→", ">", ">>", "next chapter", "continue reading", "continue",
       "read more", "next page", "forward", "next post", "next article",
       "next entry", "next story", "next part", "next section", "proceed",
       "advance", "onward", "siguiente", "weiter", "suivant" >>

patternsPrev ==
    << "previous", "prev", "←", "<", "<<", "back", "previous chapter",
       "prev chapter", "previous page", "back to", "previous post", "prev post",
       "previous article", "prev article", "previous entry", "prev entry",
       "previous story", "prev story", "previous part", "prev part",
       "previous section", "prev section", "return", "go back", "anterior",
       "zurück", "précédent" >>

Directions == {"next", "prev"}
Patterns(dir) == IF dir = "next" THEN patternsNext ELSE patternsPrev

\* ---- an element of the document
\* Its tag, the attributes extractNav reads (href and the like hold the URL
\* reference by its parts, onclick the one its text yields), its text, and
\* where it stands: inside a nav, inside a sidebar, inside the list of the
\* document.
Ref(host, path, query, frag) ==
    URL(IF host = "" THEN "" ELSE "https", host, path, query, frag)

Elem(tag, href, text, rel, class) ==
    [ tag |-> tag, href |-> href, dataHref |-> EmptyURL, dataUrl |-> EmptyURL,
      dataLink |-> EmptyURL, onclick |-> EmptyURL, text |-> text, rel |-> rel,
      id |-> "", class |-> class, title |-> "", ariaLabel |-> "", alt |-> "",
      role |-> "", inNav |-> FALSE, inSidebar |-> FALSE, inList |-> FALSE ]

\* The class names of the selector.
SelectorClasses ==
    { "btn", "button", "nav-link", "navigation", "pager", "pagination", "next",
      "prev", "previous", "continue", "forward", "back", "page-numbers",
      "page-link", "wp-pagenavi" }

\* doc.Find(selector) finds the element.  A class attribute of the model is
\* one name.
Selected(e) ==
    \/ e.tag = "a" /\ e.href # EmptyURL
    \/ /\ e.tag \in {"button", "div", "span"}
       /\ \/ e.onclick # EmptyURL
          \/ e.dataHref # EmptyURL
          \/ e.dataUrl # EmptyURL
          \/ e.dataLink # EmptyURL
    \/ (e.inNav \/ e.inList) /\ e.tag \in {"a", "button", "span", "div"}
    \/ e.role \in {"button", "link"}
    \/ e.class \in SelectorClasses

\* ---- URLs
\* url.Parse fails on the reference.
ParseErr(u) == Contains(u.path, "%zz")

\* The directory of a path: up to its last "/".
DirOf(path) ==
    LET idx == {i \in 1 .. Len(path) : SubSeq(path, i, i) = "/"}
    IN  IF idx = {} THEN "/"
        ELSE SubSeq(path, 1, CHOOSE i \in idx : \A j \in idx : i >= j)

\* baseU.Parse(ref): the reference resolved against the base (dot segments
\* left as they are).
Resolve(base, ref) ==
    IF ref.scheme # "" THEN ref
    ELSE IF ref.host # "" THEN [ref EXCEPT !.scheme = base.scheme]
    ELSE IF ref.path = ""
         THEN URL(base.scheme, base.host, base.path,
                  IF ref.query # "" THEN ref.query ELSE base.query, ref.frag)
         ELSE URL(base.scheme, base.host,
                  IF Head(ref.path) = "/" THEN ref.path ELSE DirOf(base.path) \o ref.path,
                  ref.query, ref.frag)

SameHostOnly(pageURL, elemURL) ==
    /\ ~ParseErr(pageURL)
    /\ ~ParseErr(elemURL)
    /\ Resolve(pageURL, elemURL).host = pageURL.host
isURLsameSiteDiffPage(pageURL, elemURL) ==
    /\ ~ParseErr(pageURL)
    /\ ~ParseErr(elemURL)
    /\ Resolve(pageURL, elemURL).host = pageURL.host
    /\ Resolve(pageURL, elemURL).path # pageURL.path

getURLfromElem(e) ==
    IF e.href # EmptyURL THEN e.href
    ELSE IF e.dataHref # EmptyURL THEN e.dataHref
    ELSE IF e.dataUrl # EmptyURL THEN e.dataUrl
    ELSE IF e.dataLink # EmptyURL THEN e.dataLink
    ELSE e.onclick

resolveURL(elemURL, baseURL) ==
    IF ParseErr(baseURL) \/ ParseErr(elemURL) THEN elemURL ELSE Resolve(baseURL, elemURL)

\* ---- matching and scoring
SearchFields(e) ==
    << ToLower(TrimText(e.text)), ToLower(e.id), ToLower(e.class), ToLower(e.title),
       ToLower(e.ariaLabel), ToLower(e.alt) >>

matchesPatterns(e, patterns) ==
    \E k \in 1 .. Len(patterns), f \in 1 .. Len(SearchFields(e)) :
        Contains(SearchFields(e)[f], patterns[k])

hasSemanticNavAttributes(e, direction) == ToLower(e.rel) = direction

\* The longest of the patterns the field contains, in bytes; 0 for none.
BestPatternLen(field, patterns) ==
    LET lens == { ByteLen(patterns[k]) : k \in { j \in 1 .. Len(patterns) : Contains(field, patterns[j]) } }
    IN  IF lens = {} THEN 0 ELSE CHOOSE n \in lens : \A m \in lens : n >= m

\* int(scale * bestRatio) for a field: the best ratio is that of the longest
\* pattern the field contains.  The quotient is exact here; the code's goes
\* through float64.
RatioScore(field, patterns, scale) ==
    IF field = "" THEN 0
    ELSE (scale * BestPatternLen(field, patterns)) \div ByteLen(field)

RelBonus(e) == IF ToLower(e.rel) \in {"next", "prev"} THEN 1000 ELSE 0

LandmarkBonusSmall(e) == IF e.inNav THEN 50 ELSE 0
LandmarkBonus(e) == IF e.inNav THEN 500 ELSE 0

navClasses == <<"nav-next", "nav-previous", "navigation", "pager", "pagination">>
ClassBonus(e) ==
    IF \E k \in 1 .. Len(navClasses) : Contains(ToLower(e.class), navClasses[k]) THEN 300 ELSE 0

\* int(100 * bestRatio) and int(50 * bestRatio)
TextScale == 100
AttrScale == 50

TextScore(e, patterns) == RatioScore(ToLower(TrimText(e.text)), patterns, TextScale)

RECURSIVE SumRatioScores(_, _, _)
SumRatioScores(fields, patterns, scale) ==
    IF fields = <<>> THEN 0
    ELSE RatioScore(Head(fields), patterns, scale) + SumRatioScores(Tail(fields), patterns, scale)

AttrScore(e, patterns) ==
    SumRatioScores(<<ToLower(e.id), ToLower(e.class), ToLower(e.title), ToLower(e.ariaLabel),
                     ToLower(e.alt)>>, patterns, AttrScale)

SidebarPenalty(e) == IF e.inSidebar THEN 200 ELSE 0

\* if linkCount > 10
LargeListThreshold == 10
ListPenalty(e, linkCount) ==
    IF e.inList /\ linkCount > LargeListThreshold THEN 100 ELSE 0

\* scoreElement without the part that looks at the list around the element.
OwnScore(e, patterns) ==
    RelBonus(e) + LandmarkBonus(e) + ClassBonus(e) + TextScore(e, patterns)
        + AttrScore(e, patterns) - SidebarPenalty(e)


\* ---- the documents handed to extractNav
\* A document: its elements as doc.Find meets them, and one list (ul or ol)
\* that holds the elements marked inList and fill more links, none of which
\* leads anywhere on the site.
MaxElems == 2

BaseURLs == { URL("https", "site.example", "/ch1", "", ""),
              URL("https", "site.example", "/book/ch2", "", "") }

\* /ch2 and ch3, the page itself by a fragment, and another host.
Hrefs == { Ref("", "/ch2", "", ""), Ref("", "ch3", "", ""), Ref("", "", "", "top"),
           Ref("other.example", "/ch2", "", "") }

Features ==
    { Elem("a", EmptyURL, "Next", "", ""),
      [Elem("a", EmptyURL, "Next", "", "") EXCEPT !.inNav = TRUE],
      [Elem("a", EmptyURL, "Next", "", "") EXCEPT !.inList = TRUE],
      Elem("a", EmptyURL, "next chapter", "next", ""),
      Elem("a", EmptyURL, "Previous", "", ""),
      [Elem("a", EmptyURL, " prev ", "prev", "") EXCEPT !.inSidebar = TRUE],
      Elem("a", EmptyURL, "Continue", "", "pagination") }

ExtraElems ==
    { Elem("a", Ref("", "/ch2", "", ""), "Home", "", ""),
      Elem("a", Ref("", "/ch3", "", ""), "", "NEXT", ""),
      [Elem("a", Ref("", "/ch4", "", ""), "Next", "", "") EXCEPT !.inNav = TRUE, !.inList = TRUE],
      Elem("span", EmptyURL, "Next", "", "next"),
      [Elem("button", EmptyURL, "Next", "", "") EXCEPT !.dataHref = Ref("", "/ch5", "", "")],
      Elem("a", Ref("", "/%zz", "", ""), "Next", "next", ""),
      Elem("a", Ref("", "/ch0", "", ""), "What comes next", "prev", ""),
      [Elem("a", Ref("", "/ch6", "", ""), "Chapter 6", "next", "") EXCEPT !.inSidebar = TRUE],
      [Elem("a", Ref("", "/ch7", "", ""), "Next", "", "nav-next") EXCEPT !.inNav = TRUE],
      [Elem("a", Ref("", "/ch8", "", ""), "", "", "next") EXCEPT !.id = "next", !.title = "Next"] }

NavElems == { [f EXCEPT !.href = r] : f \in Features, r \in Hrefs } \cup ExtraElems

NavInputs ==
    [ doc : [ elems : UNION { [1 .. n -> NavElems] : n \in 0 .. MaxElems },
              fill : {LargeListThreshold - 1, 2 * LargeListThreshold} ],
      base : BaseURLs ]

\* ---- extractNav
\* What the scan needs of an element and does not depend on the document
\* around it, computed once for every element.
ElemInfo ==
    [e \in NavElems |->
        [dir \in Directions |->
            [ matches |-> matchesPatterns(e, Patterns(dir)) \/ hasSemanticNavAttributes(e, dir),
              own |-> OwnScore(e, Patterns(dir)) ]]]

\* parentList.Find("a").Length() for an element in the list.
LinkCount(doc) ==
    doc.fill + Cardinality({ i \in DOMAIN doc.elems : doc.elems[i].inList /\ doc.elems[i].tag = "a" })

scoreElement(e, dir, doc) == ElemInfo[e][dir].own - ListPenalty(e, LinkCount(doc))

\* The element becomes a candidate of the direction.
IsCandidate(e, base, dir) ==
    /\ Selected(e)
    /\ getURLfromElem(e) # EmptyURL
    /\ isURLsameSiteDiffPage(base, getURLfromElem(e))
    /\ ElemInfo[e][dir].matches

ScoredLink(e, base, dir, doc) ==
    [URL |-> resolveURL(getURLfromElem(e), base), Score |-> scoreElement(e, dir, doc)]

\* nextCandidates or prevCandidates after the scan.
RECURSIVE ScanFrom(_, _, _, _)
ScanFrom(i, doc, base, dir) ==
    IF i > Len(doc.elems) THEN <<>>
    ELSE (IF IsCandidate(doc.elems[i], base, dir)
          THEN <<ScoredLink(doc.elems[i], base, dir, doc)>> ELSE <<>>)
            \o ScanFrom(i + 1, doc, base, dir)

\* if candidate.Score > bestNext.Score
BetterOrEqual(candidate, best) == candidate.Score >= best.Score
Better(candidate, best) == candidate.Score > best.Score

RECURSIVE BestOf(_, _)
BestOf(rest, best) ==
    IF rest = <<>> THEN best
    ELSE BestOf(Tail(rest), IF Better(Head(rest), best) THEN Head(rest) ELSE best)

BestURL(candidates) ==
    IF candidates = <<>> THEN EmptyURL
    ELSE BestOf(Tail(candidates), Head(candidates)).URL

extractNav(doc, base) ==
    Nav(BestURL(ScanFrom(1, doc, base, "next")), BestURL(ScanFrom(1, doc, base, "prev")))

InitNav ==
    /\ ClientIdle
    /\ PathsIdle
    /\ LibraryIdle
    /\ navIn \in NavInputs
    /\ navOut = NoNav

ApplyNav ==
    /\ navOut = NoNav
    /\ navOut' = extractNav(navIn.doc, navIn.base)
    /\ UNCHANGED <<navIn, pathVars, pIn, pOut, pBack, libVars, startVars, cmd, mu, procVars, parseVars, closeVars, waitVars, countVars>>

SpecNav == InitNav /\ [][ApplyNav]_vars


\* ------------------------------------------------------------------ the library: items and the active item
MaxItems == 3
MaxNow == 2
Urls == {"https://a.example/1", "https://a.example/2"}

\* A row of items, with the columns the requests read: read_ts is Null until
\* the item is read.
ItemRow(id, user, url, read) == [id |-> id, user_id |-> user, url |-> url, read_ts |-> read]

ItemExists(id) == \E it \in items : it.id = id
ItemsGet(id) == CHOOSE it \in items : it.id = id

\* UsersOwnsItem, and RequireOwnership on it.
UsersOwnsItem(u, id) == \E it \in items : it.id = id /\ it.user_id = u

\* UsersSetActiveItem: UPDATE users SET active_item_id = ? WHERE id = ?.
\* With foreign keys enforced an id of no row is an error and nothing
\* changes.
UsersSetActiveItem(u, id) ==
    IF foreignKeys /\ ~ItemExists(id) THEN activeItem ELSE [activeItem EXCEPT ![u] = id]

\* ItemsAdd and ItemsAddWithUploadedContent: a new row, or on a conflict of
\* (user_id, url) the row there is; RETURNING id.
ItemsAddId(u, url) ==
    IF \E it \in items : it.user_id = u /\ it.url = url
    THEN (CHOOSE it \in items : it.user_id = u /\ it.url = url).id
    ELSE nextItemId

ItemsAdd(u, url) ==
    IF \E it \in items : it.user_id = u /\ it.url = url
    THEN items
    ELSE items \cup {ItemRow(nextItemId, u, url, Null)}

\* The trigger's SELECT for a user over the rows left: the id of a row of
\* the user's with the latest read_ts (any of them when several have it),
\* NULL when the user has read none.
LatestRead(u, rows) ==
    LET read == { it \in rows : it.user_id = u /\ it.read_ts # Null }
        latest == { it.id : it \in { a \in read : \A b \in read : a.read_ts >= b.read_ts } }
    IN  IF read = {} THEN {Null} ELSE latest

\* DELETE FROM items WHERE id = ?: what active_item_id of a user can be
\* afterwards.  The trigger update_active_item_on_delete rewrites it where
\* it was the deleted id; with foreign keys enforced ON DELETE SET NULL acts
\* on the same rows, before or after the trigger.
ActiveAfterDelete(u, id, rows) ==
    IF activeItem[u] # id THEN {activeItem[u]}
    ELSE LatestRead(u, rows) \cup (IF foreignKeys THEN {Null} ELSE {})

InitLibrary ==
    /\ ClientIdle
    /\ PathsIdle
    /\ NavIdle
    /\ items = {}
    /\ activeItem = [u \in Users |-> Null]
    /\ nextItemId = 1
    /\ now = 1
    /\ foreignKeys \in BOOLEAN

LibUnchanged ==
    UNCHANGED <<pIn, pOut, pBack, pathVars, navVars, startVars, cmd, mu, procVars, parseVars, closeVars, waitVars, countVars>>

\* POST /library: AddItemWithTitleSetActive.  The item is added; when the
\* page could be fetched and cleaned its title is set and the item becomes
\* the user's active item.
LibraryPost(u, url, cleaned) ==
    /\ ItemsAddId(u, url) <= MaxItems
    /\ items' = ItemsAdd(u, url)
    /\ nextItemId' = IF ItemsAddId(u, url) = nextItemId THEN nextItemId + 1 ELSE nextItemId
    /\ activeItem' = IF cleaned THEN [activeItem EXCEPT ![u] = ItemsAddId(u, url)] ELSE activeItem
    /\ UNCHANGED <<now, foreignKeys>>
    /\ LibUnchanged

\* POST /ext/article: AddItemWithUploadedContent, which always makes the
\* item the active one.
ExtensionPostContent(u, url) ==
    /\ ItemsAddId(u, url) <= MaxItems
    /\ items' = ItemsAdd(u, url)
    /\ nextItemId' = IF ItemsAddId(u, url) = nextItemId THEN nextItemId + 1 ELSE nextItemId
    /\ activeItem' = [activeItem EXCEPT ![u] = ItemsAddId(u, url)]
    /\ UNCHANGED <<now, foreignKeys>>
    /\ LibUnchanged

\* PATCH /library/{id}: UsersSetActiveItem with the id of the path, whatever
\* it is.
LibraryItemPatch(u, id) ==
    /\ activeItem' = UsersSetActiveItem(u, id)
    /\ UNCHANGED <<items, nextItemId, now, foreignKeys>>
    /\ LibUnchanged

\* DELETE /library/{id}: the item must be there and be the user's.
LibraryItemDelete(u, id) ==
    /\ ItemExists(id)
    /\ ItemsGet(id).user_id = u
    /\ items' = items \ {ItemsGet(id)}
    /\ activeItem' \in { f \in [Users -> {Null} \cup (1 .. MaxItems)] :
                           \A v \in Users : f[v] \in ActiveAfterDelete(v, id, items') }
    /\ UNCHANGED <<nextItemId, now, foreignKeys>>
    /\ LibUnchanged

\* ReadItem: read_ts = now.
ReadItem(id) == (items \ {ItemsGet(id)}) \cup {[ItemsGet(id) EXCEPT !.read_ts = now]}

\* GET /read/{id}: RequireOwnership, then ReadItem.
Read(u, id) ==
    /\ UsersOwnsItem(u, id)
    /\ items' = ReadItem(id)
    /\ UNCHANGED <<activeItem, nextItemId, now, foreignKeys>>
    /\ LibUnchanged

\* GET /read: the active item, RequireOwnership, then ReadItem.
ReadActive(u) ==
    /\ activeItem[u] # Null
    /\ UsersOwnsItem(u, activeItem[u])
    /\ items' = ReadItem(activeItem[u])
    /\ UNCHANGED <<activeItem, nextItemId, now, foreignKeys>>
    /\ LibUnchanged

\* NavigateItem: ItemsSetUrl; a URL the user has already is a conflict, an
\* error nobody looks at.
NavigateItem(id, url) ==
    IF \E it \in items : it.user_id = ItemsGet(id).user_id /\ it.url = url
    THEN items
    ELSE (items \ {ItemsGet(id)}) \cup {[ItemsGet(id) EXCEPT !.url = url]}

\* POST /read: RequireOwnership of item_id, UsersSetActiveItem, then the
\* item moves to the target.
ReadNavActive(u, id, url) ==
    /\ UsersOwnsItem(u, id)
    /\ activeItem' = UsersSetActiveItem(u, id)
    /\ items' = NavigateItem(id, url)
    /\ UNCHANGED <<nextItemId, now, foreignKeys>>
    /\ LibUnchanged

\* POST /read/{id}: RequireOwnership, then the item moves to the target.
ReadNav(u, id, url) ==
    /\ UsersOwnsItem(u, id)
    /\ items' = NavigateItem(id, url)
    /\ items' # items
    /\ UNCHANGED <<activeItem, nextItemId, now, foreignKeys>>
    /\ LibUnchanged

\* A second passes.
Tick ==
    /\ now < MaxNow
    /\ now' = now + 1
    /\ UNCHANGED <<items, activeItem, nextItemId, foreignKeys>>
    /\ LibUnchanged

NextLibrary ==
    \/ \E u \in Users, url \in Urls, cleaned \in BOOLEAN : LibraryPost(u, url, cleaned)
    \/ \E u \in Users, url \in Urls : ExtensionPostContent(u, url)
    \/ \E u \in Users, id \in 1 .. MaxItems : LibraryItemPatch(u, id)
    \/ \E u \in Users, id \in 1 .. MaxItems : LibraryItemDelete(u, id)
    \/ \E u \in Users, id \in 1 .. MaxItems : Read(u, id)
    \/ \E u \in Users : ReadActive(u)
    \/ \E u \in Users, id \in 1 .. MaxItems, url \in Urls : ReadNavActive(u, id, url)
    \/ \E u \in Users, id \in 1 .. MaxItems, url \in Urls : ReadNav(u, id, url)
    \/ Tick

SpecLibrary == InitLibrary /\ [][NextLibrary]_vars


\* ------------------------------------------------------------------ claims
\* The call of Close has returned, or has only its deferred removal left.
CloseReturned(c) == cpc[c] \in {"remove", "done"}

\* C1: once Close has marked the client closed (rc.cmd = nil), no request is
\* on its way or about to be sent, and every Parse that takes the lock from
\* then on returns the closed error and hands nothing to the transport.
C1_ParseAfterCloseFailsFast ==
    /\ cmd = "nil" => /\ inflight = {}
                      /\ \A p \in ParseProcs : ppc[p] \notin {"send", "wait"}
    /\ \A p \in ParseProcs :
          pafter[p] => /\ ppc[p] = "ret"
                       /\ pret[p] = RetErr("closed")
                       /\ ~psent[p]

\* A Parse has returned the closed error while Close is still waiting for
\* the process to exit.
C1_Witness ==
    \E p \in Callers, c \in Closers :
        /\ pafter[p] /\ ppc[p] = "ret" /\ pret[p].err = "closed"
        /\ cshut[c] /\ cpc[c] \in {"select", "killed"}
        /\ proc \in {"running", "dying"}

\* C2: all the calls of Close together send SIGTERM once at most, SIGKILL
\* once at most, start one wait and remove the file once; a Close that finds
\* the client closed returns nil.
C2_CloseIsIdempotent ==
    /\ sigterms <= 1
    /\ sigkills <= 1
    /\ waits <= 1
    /\ removes <= 1
    /\ \A c \in CloseProcs : cpc[c] = "done" /\ ~cshut[c] => cret[c] = "nil"

\* A second Close has returned nil after the first one shut the worker down
\* and returned.
C2_Witness ==
    \E c \in Closers :
        /\ cpc[c] = "done" /\ ~cshut[c] /\ cret[c] = "nil"
        /\ \A d \in Closers : cpc[d] \in {"idle", "done"}
        /\ sigterms = 1 /\ waits = 1 /\ removes = 1

\* C3: at most one httpClient.Do is outstanding at any time.
C3_OneRequestInFlight == Cardinality(inflight) <= 1

\* One caller's request is outstanding while another caller waits for the
\* lock.
C3_Witness ==
    \E p, q \in Callers : p # q /\ p \in inflight /\ ppc[p] = "wait" /\ ppc[q] = "lock"

\* C4: Close removes the socket file once at most, and when the Close that
\* shut the worker down has returned it has removed it once and no file is
\* at the socket path, whatever path Close took.
C4_SocketRemovedOnce ==
    /\ removes <= 1
    /\ \A c \in CloseProcs :
          cshut[c] /\ cpc[c] = "done" =>
              /\ removes = 1
              /\ ~sockFile
              /\ cpath[c] \in {"finished", "finished_timeout", "graceful", "killed", "kill_timeout"}

\* Close has returned after the wait timed out after the forced kill, of a
\* worker that had bound its socket.
C4_Witness ==
    \E c \in Closers :
        /\ cshut[c] /\ cpc[c] = "done" /\ cpath[c] = "kill_timeout"
        /\ proc = "dying" /\ ~sockFile /\ removes = 1

\* C5: SIGKILL is sent only after SIGTERM and only with the ctx of Close
\* done; and a Close that leaves its select with ctx done and no wait result
\* in the channel sends SIGKILL.
C5_KillAfterTermAndDeadline ==
    /\ [](\A c \in CloseProcs :
             (cpc[c] = "killed" \/ (CloseReturned(c) /\ cpath[c] \in {"killed", "kill_timeout"}))
                 => cctx[c] /\ sigterms = 1 /\ sigkills = 1)
    /\ [](sigkills > 0 => sigterms > 0)
    /\ [][\A c \in CloseProcs :
             (cpc[c] = "select" /\ cctx[c] /\ ~waitDone /\ cpc'[c] # "select")
                 => (cpc'[c] = "killed" /\ sigkills' = sigkills + 1)]_vars

\* The ctx of Close ended while the worker was running after SIGTERM, and
\* Close has sent SIGKILL.
C5_Witness ==
    \E c \in Closers :
        cpc[c] = "killed" /\ cctx[c] /\ proc = "dying" /\ sigterms = 1 /\ sigkills = 1 /\ ~cgot[c]

\* The exit of the worker was confirmed to this call of Close: it received
\* the wait result, or Signal reported the process finished.
ExitConfirmed(c) == cgot[c] \/ cpath[c] \in {"finished", "finished_timeout"}

\* C6: the Close that shut the worker down returns the error "SIGKILL sent
\* but Wait() did not complete" exactly when the exit was not confirmed to
\* it; with the exit confirmed after SIGTERM it returns nil, and with the
\* exit confirmed after the kill the error "closed via kill".
C6_ShutdownTimeoutIffUnconfirmed ==
    \A c \in CloseProcs :
        cshut[c] /\ CloseReturned(c) =>
            /\ cret[c] = "shutdown_timeout" <=> ~ExitConfirmed(c)
            /\ cret[c] = "shutdown_timeout" => cctx[c] /\ sigkills = 1
            /\ cpath[c] = "graceful" => cret[c] = "nil"
            /\ cpath[c] = "killed" => cret[c] = "killed"

\* Close has returned the shutdown-timeout error: SIGKILL sent, the process
\* still dying.
C6_Witness ==
    \E c \in Closers :
        cshut[c] /\ cpc[c] = "done" /\ cret[c] = "shutdown_timeout" /\ ~cgot[c] /\ proc = "dying"

\* C7: when the worker had exited before a holder of the client called
\* Close, the Close that shuts it down returns nil, without taking the way
\* of the forced kill, whatever its ctx.  (The case in which the fixed wait
\* for the wait result of a finished process runs out is left aside.)
C7_CloseAfterExitSucceeds ==
    \A c \in Closers :
        cshut[c] /\ cexited[c] /\ CloseReturned(c) /\ cpath[c] # "finished_timeout" =>
            /\ cret[c] = "nil"
            /\ cpath[c] \in {"finished", "graceful"}

\* The worker process does not run: it has exited, or SIGKILL has reached it
\* and it executes nothing any more.
NotRunning == proc \in {"dying", "exited", "reaped"}

\* C8: NewReadabilityClient returns, for a spawned worker, the client or the
\* health-check error; with the health-check error returned, its ctx is
\* done, the last probe failed, no client is left to call (it is marked
\* closed, its unwinding Close has returned and removed the socket file) and
\* the worker process does not run.
C8_FailedStartLeavesNoWorker ==
    /\ startPc = "done" /\ proc # "none" => startRet \in {"ok", "healthcheck_error"}
    /\ startRet = "healthcheck_error" =>
        /\ startCtx # "live"
        /\ lastErr # "nil"
        /\ cmd = "nil"
        /\ cpc[Self] = "done" /\ cshut[Self]
        /\ ~sockFile
        /\ NotRunning
        /\ \A p \in Callers : ppc[p] = "idle"

\* NewReadabilityClient has returned the health-check error for a worker
\* that took neither a probe nor SIGTERM and had to be killed.
C8_Witness ==
    /\ startRet = "healthcheck_error"
    /\ sigkills = 1
    /\ cpath[Self] \in {"killed", "kill_timeout"}
    /\ lastErr \in {"send_failed", "send_timeout", "ctx_deadline"}

\* The state of the supervisor's lifecycle.
Lifecycle ==
    IF cmd = "none" THEN "NotStarted"
    ELSE IF cmd = "started" THEN (IF startRet = "ok" THEN "Ready" ELSE "Starting")
    ELSE IF \E c \in CloseProcs : cshut[c] /\ cpc[c] # "done" THEN "Closing"
    ELSE "Closed"

LifecycleSteps ==
    { <<"NotStarted", "Starting">>, <<"Starting", "Ready">>, <<"Ready", "Closing">>,
      <<"Closing", "Closed">>, <<"Starting", "Closing">> }

\* C9: the lifecycle changes along NotStarted, Starting, Ready, Closing,
\* Closed only, or from Starting to Closing by the unwinding Close; Starting
\* becomes Ready in the step that finds the probe returned no error; a
\* health-check error leaves the supervisor Closed; once closed, rc.cmd
\* stays nil, and a Parse returns a result only from a client not closed.
C9_LifecycleMovesForward ==
    /\ [][Lifecycle' # Lifecycle => <<Lifecycle, Lifecycle'>> \in LifecycleSteps]_vars
    /\ [][(Lifecycle = "Starting" /\ Lifecycle' = "Ready")
             => (ppc[Self] = "done" /\ pret[Self].err = "nil")]_vars
    /\ [][(Lifecycle = "Starting" /\ Lifecycle' = "Closing")
             => (startPc = "closing" /\ cshut'[Self] /\ lastErr # "nil")]_vars
    /\ [](startRet = "healthcheck_error" => Lifecycle = "Closed")
    /\ [][cmd = "nil" => cmd' = "nil"]_vars
    /\ [](\A p \in ParseProcs : ppc[p] = "ret" /\ pret[p].err = "nil" => cmd = "started")

\* The health check failed and the supervisor is Closed, never Ready.
C9_Witness ==
    Lifecycle = "Closed" /\ startRet = "healthcheck_error"

\* An article object as the contract has it: the six fields, all strings,
\* any of them empty.
IsArticleObject(body) ==
    /\ body.kind = "object"
    /\ DOMAIN body.obj = Fields
    /\ \A f \in Fields : body.obj[f].t = "str"

\* C10: Parse returns no error for 200 with null, and what it returns for
\* 200 with an article object differs from what it returns for 200 with
\* null.
C10_NoArticleDistinguishable ==
    pOut # NoRet /\ pIn.status = 200 =>
        /\ pIn.body.kind = "null" => pOut.err = "nil"
        /\ IsArticleObject(pIn.body) => pOut # ParseResponse(200, BodyNull)

\* C11: for a response of status 400 Parse returns the invalid-input error,
\* an error of another kind than the one it returns for the same body with
\* status 500.
C11_BadRequestIsInvalidInput ==
    pOut # NoRet /\ pIn.status = 400 =>
        /\ pOut.err = "invalid_input"
        /\ pOut.err # ParseResponse(500, pIn.body).err

\* The body is a JSON object with a non-empty error text, decodable as
\* {error, details?}.
HasJsonError(body) ==
    /\ body.kind = "object"
    /\ "error" \in DOMAIN body.obj
    /\ body.obj["error"].t = "str"
    /\ body.obj["error"].v # ""
    /\ "details" \in DOMAIN body.obj => body.obj["details"].t \in {"str", "null"}

\* C13: for a status other than 200 Parse returns no result and the error
\* "server returned status", carrying the status; its text is the JSON error
\* text, followed by the details in brackets when there are any, for a body
\* that is a JSON object with a non-empty error; otherwise the trimmed body,
\* whole when it has MaxErrMsg characters at most and else its first
\* MaxErrMsg characters followed by "..."; and the status text when the
\* trimmed body is empty.
C13_UpstreamErrorMessage ==
    pOut # NoRet /\ pIn.status # 200 =>
        /\ ~pOut.ptr
        /\ pOut.err = "status"
        /\ pOut.status = pIn.status
        /\ LET t == TrimSpace(RawBody(pIn.body))
               o == pIn.body.obj
           IN  IF HasJsonError(pIn.body)
               THEN IF "details" \in DOMAIN o /\ o["details"].t = "str" /\ o["details"].v # ""
                    THEN pOut.msg = <<o["error"].v, " ", "(", o["details"].v, ")">>
                    ELSE pOut.msg = <<o["error"].v>>
               ELSE IF t = <<>>
                    THEN pOut.msg = StatusText(pIn.status)
                    ELSE IF Len(t) <= MaxErrMsg
                         THEN pOut.msg = t
                         ELSE /\ Len(pOut.msg) = MaxErrMsg + 3
                              /\ \A i \in 1 .. MaxErrMsg : pOut.msg[i] = t[i]
                              /\ SubSeq(pOut.msg, MaxErrMsg + 1, MaxErrMsg + 3) = Ellipsis

\* Parse has cut a body of more than MaxErrMsg characters, spaces around it
\* trimmed, in a response of status 500.
C13_Witness ==
    /\ pOut # NoRet
    /\ pIn.status = 500
    /\ pIn.body.kind = "text"
    /\ Len(pIn.body.text) > Len(TrimSpace(pIn.body.text))
    /\ Len(TrimSpace(pIn.body.text)) > MaxErrMsg
    /\ Len(pOut.msg) = MaxErrMsg + 3

TransportErrs == {"ctx_canceled", "ctx_deadline", "send_failed", "send_timeout"}

\* C12: a Parse that failed in sending returns the error that wraps
\* context.Canceled exactly when its ctx was cancelled, the one that wraps
\* context.DeadlineExceeded exactly when the deadline of its ctx passed, and
\* with its ctx live the error of the transport: the client's own timeout,
\* or the failure to send.
C12_CancelledToldFromTimedOut ==
    \A p \in ParseProcs :
        ppc[p] \in {"ret", "done"} /\ pret[p].err \in TransportErrs =>
            /\ pret[p].err = "ctx_canceled" <=> pctx[p] = "canceled"
            /\ pret[p].err = "ctx_deadline" <=> pctx[p] = "deadline"
            /\ pret[p].err \in {"send_failed", "send_timeout"} <=> pctx[p] = "live"
            /\ ~pret[p].ptr

\* A caller cancelled its Parse after the request was sent, and Parse is
\* returning the cancellation.
C12_Witness ==
    \E p \in Callers :
        ppc[p] = "ret" /\ psent[p] /\ pctx[p] = "canceled" /\ pret[p].err = "ctx_canceled"

\* C14: healthcheck returns nil in the step after a probe that returned no
\* error, a "no article" answer included; it starts a probe only first or
\* after a probe that failed; and after its return no probe is started.
C14_FirstGoodProbeEndsHealthcheck ==
    /\ [](startRet = "ok" =>
             startPc = "done" /\ ppc[Self] = "idle" /\ Self \notin mu /\ pret[Self].err = "nil")
    /\ [][(startPc = "probing" /\ startPc' # "probing") =>
             /\ ppc[Self] = "done"
             /\ pret[Self].err = "nil" => (startPc' = "done" /\ startRet' = "ok")
             /\ pret[Self].err # "nil" => (startPc' = "hcselect" /\ startRet' = "none")]_vars
    /\ [][(startPc # "probe" /\ startPc' = "probe") =>
             (startPc = "spawn" \/ (startPc = "hcselect" /\ lastErr # "nil"))]_vars
    /\ [][startPc = "done" => (startPc' = "done" /\ ppc'[Self] = ppc[Self])]_vars

\* healthcheck has returned nil on a probe the worker answered with "no
\* article".
C14_Witness ==
    /\ startRet = "ok"
    /\ ppc[Self] = "idle"
    /\ pret[Self] = ParseResponse(200, BodyNull)

\* C15: rc.mu is held only by a Parse between its Lock and its return, and
\* the step in which a Parse returns releases it, whatever the Parse
\* returns; so with no Parse under way the mutex is free for the next Parse
\* or Close.
C15_ParseReleasesLock ==
    /\ [](\A p \in ParseProcs : p \in mu => ppc[p] \in {"send", "wait", "ret"})
    /\ []((\A p \in ParseProcs : ppc[p] \in {"idle", "lock", "done"}) => MuFree)
    /\ [][\A p \in ParseProcs :
             (ppc[p] = "ret" /\ ppc'[p] # "ret") => (p \in mu /\ p \notin mu')]_vars

\* A probe has returned a timeout or a cancellation and the mutex is free
\* while a caller's Close waits for it.
C15_Witness ==
    /\ ppc[Self] = "done"
    /\ pret[Self].err \in {"ctx_canceled", "ctx_deadline"}
    /\ MuFree

\* C17: with tempDir no directory or the binary missing,
\* NewReadabilityClient returns the startup error in its first step, with
\* no process started, no client and the file at the socket path left as it
\* was; and a file at the socket path is removed only after both checks
\* passed.
C17_BadPathsFailBeforeSpawn ==
    /\ [][(startPc = "init" /\ ~(startIn.dirOK /\ startIn.binOK) /\ startPc' # startPc) =>
             /\ startPc' = "done"
             /\ startRet' = "startup_error"
             /\ UNCHANGED <<proc, cmd, sockFile>>]_vars
    /\ []((startPc = "done" /\ ~(startIn.dirOK /\ startIn.binOK)) =>
             /\ startRet = "startup_error"
             /\ proc = "none"
             /\ cmd = "none"
             /\ waits = 0 /\ removes = 0)
    /\ [][(sockFile /\ ~sockFile') => (startIn.dirOK /\ startIn.binOK)]_vars
    /\ [][(proc = "none" /\ proc' # "none") => (startIn.dirOK /\ startIn.binOK)]_vars

\* NewReadabilityClient has returned the startup error for a missing
\* binary, and the stale file at the socket path is still there.
C17_Witness ==
    /\ startRet = "startup_error"
    /\ startIn.dirOK /\ ~startIn.binOK
    /\ sockFile
    /\ proc = "none"

\* The client has its path and has not been closed.
SupAlive(i) == supPc[i] \in {"remove", "spawn", "ready"}

\* C16: two clients alive at the same time have different socket paths, and
\* the file at the path of a client that is ready is the one its own worker
\* bound.
C16_SocketPathUnique ==
    /\ \A i, j \in Sups : (i # j /\ SupAlive(i) /\ SupAlive(j)) => supPath[i] # supPath[j]
    /\ \A i \in Sups : supPc[i] = "ready" => sockOwner[supPath[i]] = i

\* The places in the document of the candidates of a direction.
CandidateIdx(in, dir) ==
    { i \in 1 .. Len(in.doc.elems) : IsCandidate(in.doc.elems[i], in.base, dir) }

LinkAt(in, dir, i) == ScoredLink(in.doc.elems[i], in.base, dir, in.doc)

\* The URL of the first of the candidates of the highest score, the empty
\* URL without candidates.
FirstOfBest(in, dir) ==
    LET idx == CandidateIdx(in, dir)
    IN  IF idx = {} THEN EmptyURL
        ELSE LinkAt(in, dir,
                    CHOOSE i \in idx :
                        \A k \in idx :
                            \/ LinkAt(in, dir, i).Score > LinkAt(in, dir, k).Score
                            \/ LinkAt(in, dir, i).Score = LinkAt(in, dir, k).Score /\ i <= k).URL

\* C18: for each direction extractNav returns the URL of the candidate of
\* the highest score, of the first of them in the order of the scan when
\* several have it, and the empty string when the direction has no
\* candidate.
C18_BestCandidateFirstOnTies ==
    navOut.ret =>
        /\ navOut.next = FirstOfBest(navIn, "next")
        /\ navOut.prev = FirstOfBest(navIn, "prev")

\* Two candidates for next with the same score and different URLs: the
\* first one's URL is returned, and the empty string for prev, which has no
\* candidate.
C18_Witness ==
    /\ navOut.ret
    /\ CandidateIdx(navIn, "next") = {1, 2}
    /\ LinkAt(navIn, "next", 1).Score = LinkAt(navIn, "next", 2).Score
    /\ LinkAt(navIn, "next", 1).URL # LinkAt(navIn, "next", 2).URL
    /\ navOut.next = LinkAt(navIn, "next", 1).URL
    /\ CandidateIdx(navIn, "prev") = {}
    /\ navOut.prev = EmptyURL

\* C19: a URL extractNav returns is empty or has the host of the base URL
\* and another path.
C19_SameHostOtherPath ==
    navOut.ret =>
        \A u \in {navOut.next, navOut.prev} :
            u # EmptyURL => (u.host = navIn.base.host /\ u.path # navIn.base.path)

\* The document holds a link with rel=next and a matching text to another
\* host and, after it, a link to the site with a lower score, and the
\* latter is returned.
C19_Witness ==
    /\ navOut.ret
    /\ Len(navIn.doc.elems) = 2
    /\ navIn.doc.elems[1].rel = "next"
    /\ navIn.doc.elems[1].href.host = "other.example"
    /\ navIn.doc.elems[2].rel = ""
    /\ navOut.next = Resolve(navIn.base, navIn.doc.elems[2].href)
    /\ navOut.next.host = navIn.base.host

\* Two elements that differ in nothing but where they stand and where they
\* lead.
SameButPlace(a, b) ==
    [a EXCEPT !.href = EmptyURL, !.inNav = FALSE, !.inList = FALSE]
        = [b EXCEPT !.href = EmptyURL, !.inNav = FALSE, !.inList = FALSE]

InLargeList(in, e) == e.inList /\ LinkCount(in.doc) > LargeListThreshold

\* C20: of two candidates for next that differ only in where they stand,
\* one inside a nav and the other, outside of any nav, inside a list of more
\* than LargeListThreshold links, the one inside the nav has the higher
\* score and, with no third element, is the one returned, in either order;
\* and so has a candidate inside a nav and inside the large list against one
\* that is in neither.
C20_LandmarkOutweighsLargeList ==
    navOut.ret =>
        \A i, k \in CandidateIdx(navIn, "next") :
            LET a == navIn.doc.elems[i]
                b == navIn.doc.elems[k]
            IN  (/\ SameButPlace(a, b)
                 /\ a.inNav /\ ~b.inNav
                 /\ InLargeList(navIn, b) \/ (InLargeList(navIn, a) /\ ~b.inList))
                    => /\ LinkAt(navIn, "next", i).Score > LinkAt(navIn, "next", k).Score
                       /\ Len(navIn.doc.elems) = 2 => navOut.next = LinkAt(navIn, "next", i).URL

\* The link in the large list comes first, the one in the nav second, with
\* the same text and different URLs, and the second one's URL is returned.
C20_Witness ==
    /\ navOut.ret
    /\ Len(navIn.doc.elems) = 2
    /\ CandidateIdx(navIn, "next") = {1, 2}
    /\ SameButPlace(navIn.doc.elems[1], navIn.doc.elems[2])
    /\ InLargeList(navIn, navIn.doc.elems[1]) /\ ~navIn.doc.elems[1].inNav
    /\ navIn.doc.elems[2].inNav /\ ~navIn.doc.elems[2].inList
    /\ LinkAt(navIn, "next", 1).URL # LinkAt(navIn, "next", 2).URL
    /\ navOut.next = LinkAt(navIn, "next", 2).URL

\* C21: for status 200 with an article object Parse returns a result whose
\* six fields are the strings of the object's members of the same names,
\* and encoding that result and decoding it again gives the same six
\* fields.
C21_FieldsSurviveParseAndRoundTrip ==
    (pOut # NoRet /\ pIn.status = 200 /\ IsArticleObject(pIn.body)) =>
        /\ pOut.ptr /\ pOut.err = "nil"
        /\ \A f \in Fields : pOut.val[f] = pIn.body.obj[f].v
        /\ pBack = pOut.val
        /\ DOMAIN MarshalSuccess(pOut.val).obj = Fields

\* Parse has returned an article some of whose fields are empty and some
\* not, and the round trip has given it back.
C21_Witness ==
    /\ pOut # NoRet /\ pIn.status = 200 /\ IsArticleObject(pIn.body)
    /\ pOut.val["title"] = "a" /\ pOut.val["content"] = "a" /\ pOut.val["excerpt"] = ""
    /\ pBack = pOut.val

\* The health check is under way.
InHealthcheck == startPc \in {"probe", "probing", "hcselect"}

\* With the caller's ctx done, the health check under way returns.
HealthcheckStopsOnceCtxDone == (InHealthcheck /\ startCtx # "live") ~> ~InHealthcheck

\* The error healthcheck returns wraps lastErr, the error of the probe before
\* the select.
HealthcheckWrapsLastProbe ==
    [][(startPc = "hcselect" /\ startPc' = "unwind") =>
            lastErr' = lastErr /\ lastErr # "nil" /\ startCtx # "live"]_vars

\* C22: a health check that has begun ends: it does not retry without end.
C22_HealthcheckEnds == InHealthcheck ~> ~InHealthcheck

\* C23: once the process has exited, the wait goroutine started by Close
\* reaps it, sends its result and ends, whoever holds the lock and whether
\* or not Close still waits for the result.
C23_WaitRunsToCompletion == (wpc = "waiting" /\ proc = "exited") ~> (wpc = "done")

\* Close has returned on the timeout after the kill, nobody receives any
\* more, and the wait goroutine has ended with its result in the channel.
C23_Witness ==
    /\ wpc = "done" /\ waitDone
    /\ \E c \in CloseProcs : cpc[c] = "done" /\ cpath[c] = "kill_timeout"
    /\ \A c \in CloseProcs : cpc[c] \in {"idle", "done"}

\* C24: every call of Parse by a caller returns.
C24_ParseReturns == \A p \in Callers : (ppc[p] = "lock") ~> (ppc[p] = "idle")

\* Both callers are in Parse with a worker that listens: one waits for the
\* answer, the other for the lock.
C24_Witness ==
    /\ proc = "running" /\ listening
    /\ \E p, q \in Callers : p # q /\ ppc[p] = "wait" /\ ppc[q] = "lock"

\* The score scoreElement gives the element for the direction when its rel
\* counts for that direction alone.
ScoreRelOfDirection(in, dir, e) ==
    OwnScore(e, Patterns(dir)) - RelBonus(e)
        + (IF ToLower(e.rel) = dir THEN RelBonus(e) ELSE 0)
        - ListPenalty(e, LinkCount(in.doc))

\* C25: the score of a candidate for a direction holds the rel bonus only
\* when its rel is that direction: a candidate for next with rel=prev, or
\* for prev with rel=next, is scored as it would be without the rel.
C25_RelBonusOnlyForDirection ==
    navOut.ret =>
        \A dir \in Directions : \A i \in CandidateIdx(navIn, dir) :
            LinkAt(navIn, dir, i).Score = ScoreRelOfDirection(navIn, dir, navIn.doc.elems[i])

\* The candidates of the direction whose rel is the direction.
RelCandidateIdx(in, dir) ==
    { i \in CandidateIdx(in, dir) : ToLower(in.doc.elems[i].rel) = dir }

\* The URL returned for the direction.
NavURL(nav, dir) == IF dir = "next" THEN nav.next ELSE nav.prev

\* C26: when a direction has a candidate whose rel is the direction, the URL
\* returned for it is that of such a candidate, whatever the scores of the
\* candidates without it.
C26_RelMatchAlwaysSelected ==
    navOut.ret =>
        \A dir \in Directions :
            RelCandidateIdx(navIn, dir) # {} =>
                \E i \in RelCandidateIdx(navIn, dir) :
                    NavURL(navOut, dir) = LinkAt(navIn, dir, i).URL

\* C27: the part of a candidate's score that comes from id, class, title,
\* aria-label and alt is at most AttrScale, which is below TextScale.
C27_AttrPartBounded ==
    /\ AttrScale < TextScale
    /\ navOut.ret =>
          \A dir \in Directions : \A i \in CandidateIdx(navIn, dir) :
              AttrScore(navIn.doc.elems[i], Patterns(dir)) <= AttrScale

\* C28: the active item of every user is NULL or the id of a row of items
\* whose user_id is that user.
C28_ActiveItemOwned ==
    \A u \in Users : activeItem[u] = Null \/ UsersOwnsItem(u, activeItem[u])

=============================================================================
